---- MODULE Spec2Model ----
(***************************************************************************)
(* A model of kinda_newsy.py: the first-order Markov text generator        *)
(* (MarkovGenerator) and the tweeting loop that drives it                  *)
(* (TwitterBot.tweet).                                                     *)
(*                                                                         *)
(* Strings are sequences of one-character strings, so that len(), the last *)
(* character word[-1], str.lower(), str.split() and string concatenation   *)
(* are computed as Python computes them.                                   *)
(***************************************************************************)
EXTENDS Integers, Sequences, FiniteSets, TLC

VARIABLES
    text,            \* MarkovGenerator.text
    mappings,        \* MarkovGenerator.mappings: key -> list of successors
    openers,         \* MarkovGenerator.openers
    gpc,             \* where the generator is: none, ready, loop, returned, raised
    min_length,      \* generate_text's argument
    output,          \* generate_text's local
    word,            \* generate_text's local
    tpc,             \* where TwitterBot.tweet is
    articles,        \* tweet's local: the article texts
    cached,          \* the articles whose TimesArticle._text is set
    tweet_contents,  \* tweet's local: <<>> is None, <<s>> is the string s
    posted           \* the statuses handed to update_status, in order

gvars == <<text, mappings, openers, gpc, min_length, output, word>>
tvars == <<tpc, articles, cached, tweet_contents, posted>>
vars == <<text, mappings, openers, gpc, min_length, output, word,
          tpc, articles, cached, tweet_contents, posted>>

----------------------------------------------------------------------------
(* Bounds of the model.                                                    *)

\* generate_text is called with min_length in 0..MaxMinLength.
MaxMinLength == 16
\* The walk is followed for at most MaxWords appended words.
MaxWords == 8

----------------------------------------------------------------------------
(* Strings.                                                                *)

Range(s) == {s[i] : i \in DOMAIN s}

Whitespace == {" ", "\t", "\n"}

UpperCase == <<"A", "B", "C", "D", "E", "F", "G", "H", "I", "J", "K", "L", "M",
               "N", "O", "P", "Q", "R", "S", "T", "U", "V", "W", "X", "Y", "Z">>
LowerCase == <<"a", "b", "c", "d", "e", "f", "g", "h", "i", "j", "k", "l", "m",
               "n", "o", "p", "q", "r", "s", "t", "u", "v", "w", "x", "y", "z">>

\* str.lower() on one character.
LowerChar(c) ==
    IF \E i \in DOMAIN UpperCase : UpperCase[i] = c
    THEN LowerCase[CHOOSE i \in DOMAIN UpperCase : UpperCase[i] = c]
    ELSE c

\* str.lower()
Lower(s) == [i \in DOMAIN s |-> LowerChar(s[i])]

\* str.split() with no argument: the maximal runs of non-whitespace
\* characters, in order. A run starts at a non-whitespace character that is
\* first or follows whitespace and ends at the next one that is last or is
\* followed by whitespace.
Split(s) ==
    LET starts == {i \in DOMAIN s :
                      s[i] \notin Whitespace /\ (i = 1 \/ s[i - 1] \in Whitespace)}
        ends == {j \in DOMAIN s :
                    s[j] \notin Whitespace /\ (j = Len(s) \/ s[j + 1] \in Whitespace)}
        StartOf(k) == CHOOSE i \in starts : Cardinality({j \in starts : j < i}) = k - 1
        EndOf(i) == CHOOSE j \in ends : j >= i /\ \A e \in ends : e >= i => j <= e
    IN  [k \in 1..Cardinality(starts) |-> SubSeq(s, StartOf(k), EndOf(StartOf(k)))]

\* word[-1] == "."
EndsWithPeriod(w) == w[Len(w)] = "."

\* Words that shouldn't end a sentence.
NOSTOP_WORDS == {<<"m", "r", ".">>, <<"m", "s", ".">>, <<"d", "r", ".">>}

----------------------------------------------------------------------------
(* The source texts the model constructs generators from.                  *)

TextHello == <<"H", "e", "l", "l", "o", " ", "w", "o", "r", "l", "d", ".", " ",
               "M", "r", ".", " ", "S", "m", "i", "t", "h", " ", "l", "e", "f",
               "t", ".", " ", "G", "o", "o", "d", "b", "y", "e", " ", "n", "o",
               "w", ".">>
TextTrap == <<"a", ".", " ", "b", " ", "b">>
TextWord == <<"w", "o", "r", "d">>
TextHi == <<"x", ".", " ", "H", "i", ".">>
TextDr == <<" ", "D", "r", ".", " ", "O", "z", " ", " ", "r", "a", "n", ".", "\t",
            "D", "r", ".", " ", "O", "z", "\n", "s", "a", "t", ".", " ">>
TextNoOpener == <<"b", " ", "c", ".">>
TextBlank == <<" ", "\n">>
TextPartial == <<"a", ".", " ", "b", " ", "c", ".", " ", "d", " ", "d">>
TextChoice == <<"a", ".", " ", "b", " ", "c", " ", "b", " ", "d", ".">>

Texts == {TextHello, TextTrap, TextWord, TextHi, TextDr, TextNoOpener, TextBlank,
          TextPartial, TextChoice}

\* The texts termination is checked for, and their words.
FairTexts == {TextTrap, TextHi, TextDr, TextNoOpener, TextPartial, TextChoice}
Words == UNION {Range(Split(t)) : t \in FairTexts}

----------------------------------------------------------------------------
(* MarkovGenerator.                                                        *)

EmptyMappings == [k \in {} |-> <<>>]

\* self.mappings[word].append(next_word) on a defaultdict(list)
AppendTo(m, k, v) ==
    IF k \in DOMAIN m
    THEN [m EXCEPT ![k] = Append(@, v)]
    ELSE m @@ (k :> <<v>>)

\* The loop of _generate_mappings over zip(words, words[1:]), from pair i on.
RECURSIVE GenerateFrom(_, _, _, _)
GenerateFrom(words, i, m, o) ==
    IF i >= Len(words)
    THEN [mappings |-> m, openers |-> o]
    ELSE GenerateFrom(words, i + 1,
                      AppendTo(m, words[i], words[i + 1]),
                      IF EndsWithPeriod(words[i]) THEN Append(o, words[i + 1]) ELSE o)

\* A variant that takes the word after a sentence end for the sentence end:
\* it tests next_word[-1] where the code tests word[-1].
RECURSIVE GenerateFromOpenerOfNext(_, _, _, _)
GenerateFromOpenerOfNext(words, i, m, o) ==
    IF i >= Len(words)
    THEN [mappings |-> m, openers |-> o]
    ELSE GenerateFromOpenerOfNext(words, i + 1,
                      AppendTo(m, words[i], words[i + 1]),
                      IF EndsWithPeriod(words[i + 1])
                      THEN Append(o, words[i + 1]) ELSE o)

GenerateMappingsOpenerOfNext(t) ==
    GenerateFromOpenerOfNext(Split(t), 1, EmptyMappings, <<>>)

\* _generate_mappings
GenerateMappings(t) == GenerateFrom(Split(t), 1, EmptyMappings, <<>>)

\* MarkovGenerator(text)
Construct(t) ==
    /\ gpc = "none"
    /\ text' = t
    /\ mappings' = GenerateMappings(t).mappings
    /\ openers' = GenerateMappings(t).openers
    /\ gpc' = "ready"
    /\ UNCHANGED <<min_length, output, word>>

\* Variants of the while condition: the stop words compared without lower(),
\* the length test left out, the length test skipped on the first word, and
\* the test for the final '.' left out.
LoopConditionNoPeriod ==
    \/ Len(output) + Len(word) < min_length
    \/ Lower(word) \in NOSTOP_WORDS

LoopConditionCaseSensitive ==
    \/ Len(output) + Len(word) < min_length
    \/ ~EndsWithPeriod(word)
    \/ word \in NOSTOP_WORDS

LoopConditionNoLength ==
    \/ ~EndsWithPeriod(word)
    \/ Lower(word) \in NOSTOP_WORDS

LoopConditionWaived ==
    \/ output # <<>> /\ Len(output) + Len(word) < min_length
    \/ ~EndsWithPeriod(word)
    \/ Lower(word) \in NOSTOP_WORDS

\* The while condition of generate_text.
LoopCondition ==
    \/ Len(output) + Len(word) < min_length
    \/ ~EndsWithPeriod(word)
    \/ Lower(word) \in NOSTOP_WORDS

\* The number of words appended to output so far.
Appended == Cardinality({i \in DOMAIN output : output[i] = " "})

\* A variant whose fallback draws from the successor values, not the keys.
ChoicesFallbackValues(w) ==
    IF w \in DOMAIN mappings
    THEN Range(mappings[w])
    ELSE UNION {Range(mappings[k]) : k \in DOMAIN mappings}

\* self.mappings.get(word, self.mappings.keys()), as the set random.choice
\* draws from.
Choices(w) ==
    IF w \in DOMAIN mappings THEN Range(mappings[w]) ELSE DOMAIN mappings

\* A variant that returns the empty string when there is no opener.
GenerateTextCallEmptyString(m) ==
    /\ gpc \in {"ready", "returned", "raised"}
    /\ min_length' = m
    /\ output' = <<>>
    /\ IF openers = <<>>
       THEN /\ gpc' = "returned"
            /\ word' = <<>>
       ELSE /\ gpc' = "loop"
            /\ \E i \in DOMAIN openers : word' = openers[i]
    /\ UNCHANGED <<text, mappings, openers>>

\* generate_text(m) up to the loop: random.choice(self.openers) raises
\* IndexError on an empty list.
GenerateTextCall(m) ==
    /\ gpc \in {"ready", "returned", "raised"}
    /\ min_length' = m
    /\ output' = <<>>
    /\ IF openers = <<>>
       THEN /\ gpc' = "raised"
            /\ word' = <<>>
       ELSE /\ gpc' = "loop"
            /\ \E i \in DOMAIN openers : word' = openers[i]
    /\ UNCHANGED <<text, mappings, openers>>

\* A variant that indexes the table, self.mappings[word]: on a defaultdict
\* that inserts the missing key with an empty list, and random.choice then
\* raises IndexError.
LoopStepIndexing ==
    /\ gpc = "loop"
    /\ LoopCondition
    /\ Appended < MaxWords
    /\ output' = output \o word \o <<" ">>
    /\ IF word \in DOMAIN mappings
       THEN /\ gpc' = "loop"
            /\ \E w \in Range(mappings[word]) : word' = w
            /\ mappings' = mappings
       ELSE /\ gpc' = "raised"
            /\ word' = word
            /\ mappings' = mappings @@ (word :> <<>>)
    /\ UNCHANGED <<text, openers, min_length>>

\* A variant with a plain dict and no fallback: a missing key raises KeyError.
LoopStepKeyError ==
    /\ gpc = "loop"
    /\ LoopCondition
    /\ Appended < MaxWords
    /\ output' = output \o word \o <<" ">>
    /\ IF word \in DOMAIN mappings
       THEN /\ gpc' = "loop"
            /\ \E w \in Range(mappings[word]) : word' = w
       ELSE /\ gpc' = "raised"
            /\ word' = word
    /\ UNCHANGED <<text, mappings, openers, min_length>>

\* One iteration of the while loop; random.choice raises IndexError when
\* there is nothing to choose from.
LoopStep ==
    /\ gpc = "loop"
    /\ LoopCondition
    /\ Appended < MaxWords
    /\ output' = output \o word \o <<" ">>
    /\ IF Choices(word) = {}
       THEN /\ gpc' = "raised"
            /\ word' = word
       ELSE /\ gpc' = "loop"
            /\ \E w \in Choices(word) : word' = w
    /\ UNCHANGED <<text, mappings, openers, min_length>>

\* The loop condition is false: output += word; return output
GenerateTextReturn ==
    /\ gpc = "loop"
    /\ ~LoopCondition
    /\ output' = output \o word
    /\ gpc' = "returned"
    /\ UNCHANGED <<text, mappings, openers, min_length, word>>

----------------------------------------------------------------------------
(* The generator on its own: one instance, any number of calls.            *)

Init ==
    /\ text = <<>>
    /\ mappings = EmptyMappings
    /\ openers = <<>>
    /\ gpc = "none"
    /\ min_length = 0
    /\ output = <<>>
    /\ word = <<>>
    /\ tpc = "idle"
    /\ articles = <<>>
    /\ cached = {}
    /\ tweet_contents = <<>>
    /\ posted = <<>>

Next ==
    \/ \E t \in Texts : Construct(t) /\ UNCHANGED tvars
    \/ \E m \in 0..MaxMinLength : GenerateTextCall(m) /\ UNCHANGED tvars
    \/ LoopStep /\ UNCHANGED tvars
    \/ GenerateTextReturn /\ UNCHANGED tvars

Spec == Init /\ [][Next]_vars

----------------------------------------------------------------------------
(* TwitterBot.tweet.                                                       *)

\* generate_text's default min_length, and the longest status tweet posts.
DefaultMinLength == 100
TweetLimit == 140

\* n times the character c, and a word of n characters that ends a sentence.
Rep(c, n) == [i \in 1..n |-> c]
Sentence(c, n) == Rep(c, n - 1) \o <<".">>

\* Article texts. ArticleLong: three sentence-ending words of 60, 40 and 90
\* characters; its walks return 131 or 151 characters. ArticleMixed: words of
\* 30 to 45 characters with several successors each.
ArticleLong == Sentence("x", 60) \o <<" ">> \o Sentence("y", 40) \o <<" ">>
               \o Sentence("z", 90)
ArticleMixed == Sentence("p", 45) \o <<" ">> \o Rep("q", 30) \o <<" ">>
                \o Sentence("r", 35) \o <<" ">> \o Rep("q", 30) \o <<" ">>
                \o Sentence("p", 45) \o <<" ">> \o Sentence("r", 35)

\* What get_article_list may return.
ArticleLists == { <<>>,
                  <<TextWord>>,
                  <<ArticleLong, TextNoOpener>>,
                  <<ArticleMixed, ArticleLong, <<>> >> }

\* articles = TopArticlesGetter(NYT_API_KEY).get_article_list(), which may
\* raise, outside the try; tweet_contents = None
TweetBegin ==
    /\ tpc = "idle"
    /\ \/ /\ tpc' = "failed"
          /\ UNCHANGED <<articles, tweet_contents>>
       \/ /\ \E a \in ArticleLists : articles' = a
          /\ tweet_contents' = <<>>
          /\ tpc' = "attempt"
    /\ UNCHANGED <<cached, posted>>
    /\ UNCHANGED gvars

\* source = random.choice(articles); generator = MarkovGenerator(source.text)
\* random.choice raises on an empty list; source.text answers from _text when
\* that is set and not empty, and otherwise fetches the article, which may
\* raise. An exception leaves tweet_contents None and the loop tries again.
TweetAttempt ==
    /\ tpc = "attempt"
    /\ IF articles = <<>>
       THEN UNCHANGED <<tpc, cached, text, mappings, openers, gpc>>
       ELSE \E i \in DOMAIN articles :
              \/ /\ ~(i \in cached /\ articles[i] # <<>>)
                 /\ UNCHANGED <<tpc, cached, text, mappings, openers, gpc>>
              \/ /\ cached' = cached \cup {i}
                 /\ text' = articles[i]
                 /\ mappings' = GenerateMappings(articles[i]).mappings
                 /\ openers' = GenerateMappings(articles[i]).openers
                 /\ gpc' = "ready"
                 /\ tpc' = "generate"
    /\ UNCHANGED <<articles, tweet_contents, posted, min_length, output, word>>

\* tweet_contents = generator.generate_text(): the call
TweetGenerate ==
    /\ tpc = "generate"
    /\ GenerateTextCall(DefaultMinLength)
    /\ tpc' = "generating"
    /\ UNCHANGED <<articles, cached, tweet_contents, posted>>

\* A variant that posts whatever the first generate_text returned.
TweetAssignNoLimit ==
    /\ tpc = "generating"
    /\ gpc = "returned"
    /\ tweet_contents' = <<output>>
    /\ tpc' = "post"
    /\ UNCHANGED <<articles, cached, posted>>
    /\ UNCHANGED gvars

\* generate_text returned: a string longer than 140 is generated again by the
\* same generator, any other leaves both loops.
TweetAssign ==
    /\ tpc = "generating"
    /\ gpc = "returned"
    /\ tweet_contents' = <<output>>
    /\ tpc' = IF Len(output) > TweetLimit THEN "generate" ELSE "post"
    /\ UNCHANGED <<articles, cached, posted>>
    /\ UNCHANGED gvars

\* except: tweet_contents = None
TweetExcept ==
    /\ tpc = "generating"
    /\ gpc = "raised"
    /\ tweet_contents' = <<>>
    /\ tpc' = "attempt"
    /\ UNCHANGED <<articles, cached, posted>>
    /\ UNCHANGED gvars

\* self._api.update_status(tweet_contents), which may raise
TweetPost ==
    /\ tpc = "post"
    /\ \/ /\ posted' = Append(posted, tweet_contents[1])
          /\ tpc' = "done"
       \/ /\ posted' = posted
          /\ tpc' = "failed"
    /\ UNCHANGED <<articles, cached, tweet_contents>>
    /\ UNCHANGED gvars

TweetNext ==
    \/ TweetBegin
    \/ TweetAttempt
    \/ TweetGenerate
    \/ LoopStep /\ UNCHANGED tvars
    \/ GenerateTextReturn /\ UNCHANGED tvars
    \/ TweetAssign
    \/ TweetExcept
    \/ TweetPost

TweetSpec == Init /\ [][TweetNext]_vars

----------------------------------------------------------------------------
(* The generator with its loop left unbounded, for termination.  Once      *)
(* output has min_length characters the length test of the while condition *)
(* is false for the rest of the call, whatever is appended; from there on  *)
(* this specification leaves output as it is, which keeps the states       *)
(* finite and the loop's course the same.                                  *)

\* One iteration of the while loop that chooses w; random.choice raises
\* IndexError when there is nothing to choose from.
LoopStepTo(w) ==
    /\ gpc = "loop"
    /\ LoopCondition
    /\ output' = IF Len(output) >= min_length THEN output
                 ELSE output \o word \o <<" ">>
    /\ IF Choices(word) = {}
       THEN /\ gpc' = "raised"
            /\ word' = word
       ELSE /\ gpc' = "loop"
            /\ w \in Choices(word)
            /\ word' = w
    /\ UNCHANGED <<text, mappings, openers, min_length>>

FairNext ==
    \/ \E t \in FairTexts : Construct(t) /\ UNCHANGED tvars
    \/ \E m \in 0..MaxMinLength : GenerateTextCall(m) /\ UNCHANGED tvars
    \/ \E w \in Words : LoopStepTo(w) /\ UNCHANGED tvars
    \/ GenerateTextReturn /\ UNCHANGED tvars

\* random.choice is uniform: a choice that is open again and again is made
\* again and again; and a running call goes on.
FairSpec ==
    /\ Init
    /\ [][FairNext]_vars
    /\ WF_vars(GenerateTextReturn /\ UNCHANGED tvars)
    /\ \A w \in Words : SF_vars(LoopStepTo(w) /\ UNCHANGED tvars)

----------------------------------------------------------------------------
(* Properties of the generator.                                            *)

\* The words of output, and output rebuilt from them with single spaces.
Walk == Split(output)

RECURSIVE Join(_)
Join(w) ==
    IF w = <<>> THEN <<>>
    ELSE IF Len(w) = 1 THEN w[1]
    ELSE w[1] \o <<" ">> \o Join(Tail(w))

\* A word generate_text may stop on.
IsTerminal(w) == EndsWithPeriod(w) /\ Lower(w) \notin NOSTOP_WORDS

\* The sequence of w[i+1] for the i in I, in increasing i.
FollowersAt(w, I) ==
    [k \in 1..Cardinality(I) |->
        w[(CHOOSE i \in I : Cardinality({j \in I : j < i}) = k - 1) + 1]]

\* C1: construction from the tokens w[1..n] builds exactly this: the keys are
\* the tokens w[i], i < n; the entry of x is the sequence of w[i+1] for the
\* i < n with w[i] = x, in order and with duplicates; the opener list is the
\* sequence of w[i+1] for the i < n where w[i] ends with '.'.
C1_ConstructionBuildsTables ==
    gpc # "none" =>
        LET w == Split(text)
            n == Len(w)
        IN  /\ DOMAIN mappings = {w[i] : i \in 1..(n - 1)}
            /\ \A x \in DOMAIN mappings :
                   mappings[x] = FollowersAt(w, {i \in 1..(n - 1) : w[i] = x})
            /\ openers = FollowersAt(w, {i \in 1..(n - 1) : w[i][Len(w[i])] = "."})

\* A text with a repeated key, repeated successors and mixed whitespace.
C1_Witness ==
    /\ gpc = "ready"
    /\ text = TextDr
    /\ mappings[<<"D", "r", ".">>] = << <<"O", "z">>, <<"O", "z">> >>
    /\ Len(openers) = 3

\* C2: the last word of a returned string ends with '.' and, lowercased, is
\* not a stop exception.
C2_EndsOnTerminal ==
    gpc = "returned" =>
        /\ Walk # <<>>
        /\ EndsWithPeriod(Walk[Len(Walk)])
        /\ Lower(Walk[Len(Walk)]) \notin NOSTOP_WORDS

\* A string returned for the Hello text whose walk went through "Mr.".
C2_Witness ==
    /\ gpc = "returned"
    /\ text = TextHello
    /\ \E i \in DOMAIN Walk : Walk[i] = <<"M", "r", ".">>

\* C3: a returned string has at least min_length characters.
C3_MinLength == gpc = "returned" => Len(output) >= min_length

\* A returned string whose walk passed a terminal word too early to stop.
C3_Witness ==
    /\ gpc = "returned"
    /\ min_length > 0
    /\ \E i \in 1..(Len(Walk) - 1) : IsTerminal(Walk[i])

\* C4 as the specification states it: when the first word is a terminal word shorter than
\* min_length, generate_text returns on it, with fewer than min_length
\* characters.
C4_FirstWordWaivesMinimum ==
    (/\ gpc = "returned"
     /\ IsTerminal(Walk[1])
     /\ Len(Walk[1]) < min_length)
        => Len(Walk) = 1 /\ Len(output) < min_length

\* C4 as amended: when the first word is a terminal word shorter than
\* min_length, generate_text does not return on it: the walk goes on and the
\* returned string has at least min_length characters.
C4_FirstWordDoesNotWaive ==
    (/\ gpc = "returned"
     /\ IsTerminal(Walk[1])
     /\ Len(Walk[1]) < min_length)
        => Len(Walk) > 1 /\ Len(output) >= min_length

\* The single opener "Hi." with min_length = 10.
C4_Witness ==
    /\ gpc = "returned"
    /\ text = TextHi
    /\ min_length = 10
    /\ Walk[1] = <<"H", "i", ".">>

\* C5: generate_text raises exactly when the opener list is empty, and then
\* before any output; with openers, no step of the walk raises.
C5_RaisesIffNoOpeners ==
    /\ gpc = "raised" => openers = <<>> /\ output = <<>>
    /\ gpc \in {"loop", "returned"} => openers # <<>>

\* A call that raised on a generator whose table is not empty.
C5_Witness ==
    /\ gpc = "raised"
    /\ DOMAIN mappings # {}

\* C6 as the specification states it: a text with fewer than two tokens yields no generator.
C6_ConstructionRaises == ~(gpc # "none" /\ Len(Split(text)) < 2)

\* C6 as amended: construction from a text with fewer than two tokens does not
\* raise: it yields a generator with an empty table and an empty opener list,
\* and every generate_text call on it raises before any output.
C6_ConstructionDegenerates ==
    (gpc # "none" /\ Len(Split(text)) < 2) =>
        /\ DOMAIN mappings = {}
        /\ openers = <<>>
        /\ gpc \in {"ready", "raised"}
        /\ output = <<>>

\* generate_text has raised on the generator of the single token "word".
C6_Witness ==
    /\ gpc = "raised"
    /\ text = TextWord

\* C7: once constructed, the text, the table and the opener list never change,
\* and every key has a successor.
C7_TablesImmutable ==
    /\ [][gpc # "none" =>
            /\ text' = text
            /\ mappings' = mappings
            /\ openers' = openers]_vars
    /\ [](\A k \in DOMAIN mappings : mappings[k] # <<>>)

\* The walk has just left a word that is not a key, by the fallback.
C7_Witness ==
    /\ gpc = "loop"
    /\ Walk # <<>>
    /\ Walk[Len(Walk)] \notin DOMAIN mappings

\* C9: a returned string is a walk joined by single spaces, from an opener,
\* each next word a recorded successor of a key or, after a word that is not a
\* key, some key.
C9_ReturnedIsWalk ==
    gpc = "returned" =>
        /\ Join(Walk) = output
        /\ \E i \in DOMAIN openers : openers[i] = Walk[1]
        /\ \A j \in 1..(Len(Walk) - 1) :
               IF Walk[j] \in DOMAIN mappings
               THEN \E i \in DOMAIN mappings[Walk[j]] :
                        mappings[Walk[j]][i] = Walk[j + 1]
               ELSE Walk[j + 1] \in DOMAIN mappings

\* A returned walk that used the fallback.
C9_Witness ==
    /\ gpc = "returned"
    /\ \E j \in 1..(Len(Walk) - 1) : Walk[j] \notin DOMAIN mappings

\* The words the walk can reach from the words of S.
RECURSIVE ReachableFrom(_)
ReachableFrom(S) ==
    LET N == S \cup UNION {Choices(v) : v \in S}
    IN  IF N = S THEN S ELSE ReachableFrom(N)

CanReachTerminal(w) == \E v \in ReachableFrom({w}) : IsTerminal(v)

\* The walk is at a word from which no terminal word can be reached.
Trapped == gpc = "loop" /\ ~CanReachTerminal(word)

\* The walk is at a word from which every reachable word can reach a terminal.
Safe == gpc = "loop" /\ \A v \in ReachableFrom({word}) : CanReachTerminal(v)

\* C10: the loop has no ceiling. From a word that reaches no terminal word
\* the call never returns or raises and always has a next iteration; from a
\* word all of whose reachable words reach a terminal word, the call returns
\* under fair random choice.
C10_Termination ==
    /\ [][Trapped => Trapped']_vars
    /\ [](Trapped => ENABLED (\E w \in Words : LoopStepTo(w)))
    /\ Safe ~> (gpc = "returned")

\* The walk of "a. b b" is past min_length and goes on.
C10_Witness ==
    /\ Trapped
    /\ text = TextTrap
    /\ min_length > 0
    /\ Len(output) >= min_length

\* C8: tweet posts at most once, and only a string generate_text returned that
\* has at most 140 characters; a longer one is not posted but generated again
\* by the same generator; an exception in the attempt posts nothing and leads
\* to a new choice of article.
C8_TweetPostsOnceWithinLimit ==
    /\ [](/\ Len(posted) <= 1
          /\ \A i \in DOMAIN posted : Len(posted[i]) <= TweetLimit
          /\ tpc = "post" =>
                 gpc = "returned" /\ tweet_contents = <<output>>
          /\ posted # <<>> =>
                 tpc = "done" /\ gpc = "returned" /\ posted = <<output>>)
    /\ [][(tpc = "generating" /\ gpc = "returned" /\ Len(output) > TweetLimit) =>
            /\ tpc' = "generate"
            /\ posted' = posted
            /\ <<text', mappings', openers'>> = <<text, mappings, openers>>]_vars
    /\ [][(tpc = "generating" /\ gpc = "raised") =>
            /\ tpc' = "attempt"
            /\ tweet_contents' = <<>>
            /\ posted' = posted]_vars

\* A status posted after an attempt on another article had failed.
C8_Witness ==
    /\ tpc = "done"
    /\ articles = <<ArticleLong, TextNoOpener>>
    /\ cached = {1, 2}
    /\ text = ArticleLong
    /\ posted = <<output>>

====
